---- MODULE Spec2Model ----
(***************************************************************************)
(* Model of muon/_atac/plot.py: the key resolver _average_peaks.           *)
(*                                                                         *)
(* One call of _average_peaks is one behaviour: Init fixes the arguments   *)
(* (adata, keys, average, use_raw) and the locals created on lines 17-19,  *)
(* each action is one iteration of the loop on line 20 through one of its  *)
(* branches, and Return is line 75.  An exception ends the call with       *)
(* status = "raised".                                                      *)
(***************************************************************************)
EXTENDS Integers, Sequences, FiniteSets, TLC

\* Longest key sequence passed to one call.
MaxKeys == 2

VARIABLES
    obs_columns,   \* adata.obs.columns (set of column names)
    var_names,     \* adata.var_names (feature axis, in order)
    uns_atac,      \* what adata.uns holds: "absent", "no_peak_annotation", "peak_annotation"
    has_raw,       \* adata.raw is not None
    keys,          \* argument keys
    average,       \* argument average
    use_raw,       \* argument use_raw (its truth value)
    i,             \* position of the loop of line 20 (1-based index of the next key)
    x,             \* the derived table: its columns in order and their data
    attr_names,    \* display names: a python list, or the ndarray line 70 turns it into
    tmp_names,     \* new names
    warnings,      \* messages passed to warnings.warn, in order
    mean_calls,    \* names for which .X.mean(axis=1) was evaluated, in order
    status,        \* "running", "returned" or "raised"
    error          \* the exception raised, NoError otherwise

args == <<obs_columns, var_names, uns_atac, has_raw, keys, average, use_raw>>
vars == <<obs_columns, var_names, uns_atac, has_raw, keys, average, use_raw,
          i, x, attr_names, tmp_names, warnings, mean_calls, status, error>>

Range(s) == {s[j] : j \in DOMAIN s}

(***************************************************************************)
(* The annotated matrix.                                                   *)
(***************************************************************************)

\* adata.obs_names, in observation order.
obs_names == <<"c1", "c2">>

\* Feature axes the matrix may have: peaks p2 or p3 may have been filtered out;
\* p4 is never in the matrix.
VarNamesChoices == {<<"p1", "p2", "p3">>, <<"p1", "p3">>, <<"p1", "p2">>}

\* adata.X, by observation and peak.
X == [o \in Range(obs_names) |->
        IF o = "c1" THEN [p \in {"p1", "p2", "p3"} |->
                            IF p = "p1" THEN 2 ELSE IF p = "p2" THEN 6 ELSE 1]
                    ELSE [p \in {"p1", "p2", "p3"} |->
                            IF p = "p1" THEN 4 ELSE IF p = "p2" THEN 8 ELSE 3]]

\* adata.raw.X (when adata.raw exists), same axes.
RawX == [o \in Range(obs_names) |->
        IF o = "c1" THEN [p \in {"p1", "p2", "p3"} |->
                            IF p = "p1" THEN 20 ELSE IF p = "p2" THEN 61 ELSE 10]
                    ELSE [p \in {"p1", "p2", "p3"} |->
                            IF p = "p1" THEN 40 ELSE IF p = "p2" THEN 80 ELSE 33]]

\* adata.uns['atac']['peak_annotation']: one row per gene-to-peak link,
\* indexed by gene.
peak_annotation ==
    << [gene |-> "G1", peak |-> "p1", peak_type |-> "promoter"],
       [gene |-> "G1", peak |-> "p2", peak_type |-> "distal"],
       [gene |-> "G1", peak |-> "p3", peak_type |-> "promoter"],
       [gene |-> "G1", peak |-> "p4", peak_type |-> "distal"],
       [gene |-> "G2", peak |-> "p4", peak_type |-> "distal"],
       [gene |-> "G3", peak |-> "p2", peak_type |-> "distal"] >>

\* adata.obs.columns may hold.
ObsColumnsChoices ==
    { {}, {"batch"}, {"batch", "G1 (all peaks)", "G1 (promoter peaks)"} }

\* Keys a caller passes: genes of the annotation, an observation id, an obs
\* column (when obs has it) and a name that is none of these.
KeyUniverse == {"G1", "G2", "G3", "c1", "batch", "GX"}

RECURSIVE SeqsUpTo(_, _)
SeqsUpTo(S, n) ==
    IF n = 0 THEN {<<>>}
    ELSE LET shorter == SeqsUpTo(S, n - 1)
         IN  shorter \cup {Append(s, e) : s \in {t \in shorter : Len(t) = n - 1}, e \in S}

KeysChoices == SeqsUpTo(KeyUniverse, MaxKeys) \ {<<>>}

(***************************************************************************)
(* Values of the argument average, with their python type.                 *)
(***************************************************************************)
AvgStr(s) == [kind |-> "str", s |-> s, n |-> 0]
AvgNone == [kind |-> "NoneType", s |-> "", n |-> 0]
AvgFalse == [kind |-> "bool", s |-> "", n |-> 0]
AvgInt(n) == [kind |-> "int", s |-> "", n |-> n]

AverageChoices ==
    { AvgStr("total"), AvgStr("all"), AvgStr("peak_type"), AvgStr("bogus"),
      AvgStr(""), AvgNone, AvgFalse, AvgInt(0), AvgInt(-1) }

\* average == '<lit>'
PyEqStr(a, lit) == a.kind = "str" /\ a.s = lit
\* average == <k> for an integer k
PyEqInt(a, k) == a.kind \in {"int", "bool"} /\ a.n = k
\* bool(average)
PyTruthy(a) == (a.kind = "str" /\ a.s # "") \/ (a.kind \in {"int", "bool"} /\ a.n # 0)
\* f"{average}"
PyFormat(a) ==
    IF a.kind = "str" THEN a.s
    ELSE IF a.kind = "NoneType" THEN "None"
    ELSE IF a.kind = "bool" THEN (IF a.n = 0 THEN "False" ELSE "True")
    ELSE IF a.n = 0 THEN "0" ELSE "-1"

(***************************************************************************)
(* Exceptions.                                                             *)
(***************************************************************************)
NoError == [type |-> "", message |-> ""]

\* line 23
KeyErrorNoAnnotation(key) ==
    [type |-> "KeyError",
     message |-> "There is no feature or feature annotation " \o key
        \o ". If it is a gene name, load peak annotation with muon.atac.pp.add_peak_annotation first."]
\* line 24: .loc[[key]] on an index without key
KeyErrorNotInIndex(key) ==
    [type |-> "KeyError", message |-> "None of [" \o key \o "] are in the [index]"]
\* lines 42, 62: adata.raw is None
TypeErrorNoRaw ==
    [type |-> "TypeError", message |-> "'NoneType' object is not subscriptable"]
\* lines 37, 57, 73: attr_names is an ndarray
AttributeErrorAppend ==
    [type |-> "AttributeError", message |-> "'numpy.ndarray' object has no attribute 'append'"]
\* line 70: shapes that do not broadcast
ValueErrorBroadcast ==
    [type |-> "ValueError", message |-> "operands could not be broadcast together"]

(***************************************************************************)
(* Values: the row-wise mean, kept exact as a reduced fraction.            *)
(***************************************************************************)
RECURSIVE GCD(_, _)
GCD(a, b) == IF b = 0 THEN a ELSE GCD(b, a % b)

Fraction(n, d) == LET g == GCD(n, d) IN [num |-> n \div g, den |-> d \div g]

RECURSIVE SumSeq(_)
SumSeq(s) == IF s = <<>> THEN 0 ELSE Head(s) + SumSeq(Tail(s))

\* M[:, peaks].X.mean(axis=1), reshaped to one value per observation.
RowMean(M, peaks) ==
    [o \in Range(obs_names) |->
        Fraction(SumSeq([j \in 1..Len(peaks) |-> M[o][peaks[j]]]), Len(peaks))]

(***************************************************************************)
(* Lookups of lines 21-29.                                                 *)
(***************************************************************************)
\* line 21, negated: the key is an observation id or an obs column
IsDirect(key) == key \in Range(obs_names) \/ key \in obs_columns

\* line 22 testing only 'atac' not in adata.uns
AnnotationMissing_AtacOnly == uns_atac = "absent"

\* line 22
AnnotationMissing == uns_atac = "absent" \/ uns_atac = "no_peak_annotation"

\* line 24: the rows of the annotation indexed by key
AnnotationRows(key) == SelectSeq(peak_annotation, LAMBDA r : r.gene = key)

\* line 27: only the peaks that are in the object
PeakSel(key) == SelectSeq(AnnotationRows(key), LAMBDA r : r.peak \in Range(var_names))

\* line 29: peak_sel.peak
PeaksOf(sel) == [j \in 1..Len(sel) |-> sel[j].peak]

\* lines 50-52: peak_dict, its keys in the order they are first met
RECURSIVE PeakDict(_)
PeakDict(sel) ==
    IF sel = <<>> THEN <<>>
    ELSE LET init == PeakDict(SubSeq(sel, 1, Len(sel) - 1))
             last == sel[Len(sel)]
             at == {j \in DOMAIN init : init[j].t = last.peak_type}
         IN  IF at = {}
             THEN Append(init, [t |-> last.peak_type, p |-> <<last.peak>>])
             ELSE [j \in DOMAIN init |->
                     IF j \in at THEN [init[j] EXCEPT !.p = Append(@, last.peak)]
                     ELSE init[j]]

\* line 36
AllPeaksName(key) == key \o " (all peaks)"
\* line 56
PeakTypeName(key, t) == key \o " (" \o t \o " peaks)"

(***************************************************************************)
(* The locals of one call, as a record, and the statements that change     *)
(* them.                                                                   *)
(***************************************************************************)
State ==
    [x |-> x, attr_names |-> attr_names, tmp_names |-> tmp_names,
     warnings |-> warnings, mean_calls |-> mean_calls,
     status |-> status, error |-> error]

\* lines 17-19
InitialLocals ==
    [x |-> [columns |-> <<>>, data |-> <<>>],
     attr_names |-> [kind |-> "list", items |-> <<>>],
     tmp_names |-> <<>>,
     warnings |-> <<>>, mean_calls |-> <<>>,
     status |-> "running", error |-> NoError]

Raise(s, e) == [s EXCEPT !.status = "raised", !.error = e]

\* attr_names.append(name): lines 37, 57, 73
AppendAttrName(s, name) ==
    IF s.attr_names.kind = "list"
    THEN [s EXCEPT !.attr_names.items = Append(@, name)]
    ELSE Raise(s, AttributeErrorAppend)

\* x[attr_name] = values
SetColumn(t, name, values) ==
    [columns |-> IF name \in Range(t.columns) THEN t.columns
                 ELSE Append(t.columns, name),
     data |-> [c \in Range(t.columns) \cup {name} |->
                 IF c = name THEN values ELSE t.data[c]]]

\* the right-hand side of lines 42, 44, 62, 64, evaluated and assigned
StoreMean(s, attr_name, M, peaks) ==
    [s EXCEPT !.x = SetColumn(@, attr_name, RowMean(M, peaks)),
              !.mean_calls = Append(@, attr_name)]

\* lines 40-44 and 60-64
ComputeColumn(s, attr_name, peaks) ==
    IF attr_name \in obs_columns THEN s
    ELSE IF use_raw
         THEN IF has_raw THEN StoreMean(s, attr_name, RawX, peaks)
              ELSE Raise(s, TypeErrorNoRaw)
         ELSE StoreMean(s, attr_name, X, peaks)

\* lines 37-44 and 57-64
AddAttr(s, attr_name, peaks) ==
    LET s1 == AppendAttrName(s, attr_name)
    IN  IF s1.status = "raised" THEN s1
        ELSE ComputeColumn([s1 EXCEPT !.tmp_names = Append(@, attr_name)],
                           attr_name, peaks)

\* lines 55-64: the loop over peak_dict.items()
RECURSIVE AddPeakTypes(_, _, _)
AddPeakTypes(s, key, groups) ==
    IF groups = <<>> \/ s.status = "raised" THEN s
    ELSE AddPeakTypes(AddAttr(s, PeakTypeName(key, Head(groups).t), Head(groups).p),
                      key, Tail(groups))

\* line 68 written as "if average:"
WarnsNotRecognised_Truthy(a) == PyTruthy(a)

\* line 68
WarnsNotRecognised(a) ==
    a.kind # "NoneType" /\ a # AvgFalse /\ ~PyEqInt(a, -1)

\* line 69
NotRecognisedMessage(a) ==
    "Plotting individual peaks since " \o PyFormat(a)
        \o " was not recognised. Try using 'total' or 'peak_type'."

\* line 32
NotFoundMessage(key) == "Peaks for " \o key \o " are not found."

\* line 70: attr_names += peak_sel.peak.values.  The right operand is an
\* ndarray, so this is numpy's elementwise addition with broadcasting, not
\* list.extend: a list on the left is converted and the name is rebound to
\* the resulting array; an array on the left is added to in place.
IAddPeaks(s, peaks) ==
    LET a == s.attr_names
        m == Len(a.items)
        n == Len(peaks)
        fits == IF a.kind = "list" THEN m = n \/ m = 1 \/ n = 1
                ELSE m = n \/ n = 1
        len == IF n = 1 THEN m ELSE n
    IN  IF fits
        THEN [s EXCEPT !.attr_names =
                [kind |-> "ndarray",
                 items |-> [j \in 1..len |->
                              a.items[IF m = 1 THEN 1 ELSE j]
                                  \o peaks[IF n = 1 THEN 1 ELSE j]]]]
        ELSE Raise(s, ValueErrorBroadcast)

(***************************************************************************)
(* The branches of the loop body, each from the locals before to after.    *)
(***************************************************************************)
\* lines 72-73
DirectEffect(s, key) == AppendAttrName(s, key)

\* lines 22-23
NoAnnotationEffect(s, key) == Raise(s, KeyErrorNoAnnotation(key))

\* line 24, key not in the annotation index
NotInIndexEffect(s, key) == Raise(s, KeyErrorNotInIndex(key))

\* lines 31-33 listing the key although it has no peaks
PeaksNotFoundEffect_KeyListed(s, key) ==
    AppendAttrName([s EXCEPT !.warnings = Append(@, NotFoundMessage(key))], key)

\* lines 31-33
PeaksNotFoundEffect(s, key) == [s EXCEPT !.warnings = Append(@, NotFoundMessage(key))]

\* lines 35-44
TotalEffect(s, key) == AddAttr(s, AllPeaksName(key), PeaksOf(PeakSel(key)))

\* lines 46-64
PeakTypeEffect(s, key) == AddPeakTypes(s, key, PeakDict(PeakSel(key)))

\* lines 66-70
IndividualEffect(s, key) ==
    IAddPeaks(IF WarnsNotRecognised(average)
              THEN [s EXCEPT !.warnings = Append(@, NotRecognisedMessage(average))]
              ELSE s,
              PeaksOf(PeakSel(key)))

\* line 35
IsTotal(a) == PyEqStr(a, "total") \/ PyEqStr(a, "all")
\* line 46
IsPeakType(a) == PyEqStr(a, "peak_type")

\* lines 21-73: one iteration of the loop
KeyStep(s, key) ==
    IF IsDirect(key) THEN DirectEffect(s, key)
    ELSE IF AnnotationMissing THEN NoAnnotationEffect(s, key)
    ELSE IF AnnotationRows(key) = <<>> THEN NotInIndexEffect(s, key)
    ELSE IF PeakSel(key) = <<>> THEN PeaksNotFoundEffect(s, key)
    ELSE IF IsTotal(average) THEN TotalEffect(s, key)
    ELSE IF IsPeakType(average) THEN PeakTypeEffect(s, key)
    ELSE IndividualEffect(s, key)

\* lines 20-75: the loop over ks from locals s, then the return
RECURSIVE RunKeys(_, _)
RunKeys(s, ks) ==
    IF s.status = "raised" THEN s
    ELSE IF ks = <<>> THEN [s EXCEPT !.status = "returned"]
    ELSE RunKeys(KeyStep(s, Head(ks)), Tail(ks))

(***************************************************************************)
(* The state machine.                                                      *)
(***************************************************************************)
Init ==
    /\ obs_columns \in ObsColumnsChoices
    /\ var_names \in VarNamesChoices
    /\ uns_atac \in {"absent", "no_peak_annotation", "peak_annotation"}
    /\ has_raw \in BOOLEAN
    /\ keys \in KeysChoices
    /\ average \in AverageChoices
    /\ use_raw \in BOOLEAN
    /\ i = 1
    /\ x = InitialLocals.x
    /\ attr_names = InitialLocals.attr_names
    /\ tmp_names = InitialLocals.tmp_names
    /\ warnings = InitialLocals.warnings
    /\ mean_calls = InitialLocals.mean_calls
    /\ status = InitialLocals.status
    /\ error = InitialLocals.error

\* the loop is at a key
AtKey == status = "running" /\ i <= Len(keys)

\* the locals become s; the loop moves on unless the body raised
Commit(s) ==
    /\ x' = s.x
    /\ attr_names' = s.attr_names
    /\ tmp_names' = s.tmp_names
    /\ warnings' = s.warnings
    /\ mean_calls' = s.mean_calls
    /\ status' = s.status
    /\ error' = s.error
    /\ i' = IF s.status = "raised" THEN i ELSE i + 1
    /\ UNCHANGED args

\* lines 72-73
DirectKey ==
    /\ AtKey
    /\ IsDirect(keys[i])
    /\ Commit(DirectEffect(State, keys[i]))

\* lines 22-23
RaiseNoAnnotation ==
    /\ AtKey
    /\ ~IsDirect(keys[i])
    /\ AnnotationMissing
    /\ Commit(NoAnnotationEffect(State, keys[i]))

\* line 24 raising
RaiseNotInIndex ==
    /\ AtKey
    /\ ~IsDirect(keys[i])
    /\ ~AnnotationMissing
    /\ AnnotationRows(keys[i]) = <<>>
    /\ Commit(NotInIndexEffect(State, keys[i]))

\* the key is a gene of the annotation: lines 21-29 passed
AtGene ==
    /\ AtKey
    /\ ~IsDirect(keys[i])
    /\ ~AnnotationMissing
    /\ AnnotationRows(keys[i]) # <<>>

\* lines 31-33
WarnPeaksNotFound ==
    /\ AtGene
    /\ PeakSel(keys[i]) = <<>>
    /\ Commit(PeaksNotFoundEffect(State, keys[i]))

\* lines 35-44
AverageTotal ==
    /\ AtGene
    /\ PeakSel(keys[i]) # <<>>
    /\ IsTotal(average)
    /\ Commit(TotalEffect(State, keys[i]))

\* lines 46-64
AveragePeakType ==
    /\ AtGene
    /\ PeakSel(keys[i]) # <<>>
    /\ ~IsTotal(average)
    /\ IsPeakType(average)
    /\ Commit(PeakTypeEffect(State, keys[i]))

\* lines 66-70
IndividualPeaks ==
    /\ AtGene
    /\ PeakSel(keys[i]) # <<>>
    /\ ~IsTotal(average)
    /\ ~IsPeakType(average)
    /\ Commit(IndividualEffect(State, keys[i]))

\* line 75
Return ==
    /\ status = "running"
    /\ i > Len(keys)
    /\ status' = "returned"
    /\ UNCHANGED <<args, i, x, attr_names, tmp_names, warnings, mean_calls, error>>

Next ==
    \/ DirectKey
    \/ RaiseNoAnnotation
    \/ RaiseNotInIndex
    \/ WarnPeaksNotFound
    \/ AverageTotal
    \/ AveragePeakType
    \/ IndividualPeaks
    \/ Return

Spec == Init /\ [][Next]_vars

(***************************************************************************)
(* Vocabulary of the properties.                                           *)
(***************************************************************************)
Count(s, e) == Cardinality({j \in DOMAIN s : s[j] = e})

\* the annotation has a row for gene k
HasRows(k) == \E r \in Range(peak_annotation) : r.gene = k

\* a peak linked to gene k that is on the feature axis
PresentPeak(k, r) == r.gene = k /\ r.peak \in Range(var_names)

\* k is looked up as a gene, and the lookup finds rows
GeneKey(k) == ~IsDirect(k) /\ uns_atac = "peak_annotation" /\ HasRows(k)

\* k is a gene with at least one linked peak on the feature axis
GeneWithPeaks(k) == GeneKey(k) /\ \E r \in Range(peak_annotation) : PresentPeak(k, r)

\* k is a gene none of whose linked peaks is on the feature axis
GeneWithoutPeaks(k) == GeneKey(k) /\ ~\E r \in Range(peak_annotation) : PresentPeak(k, r)

\* the present peaks of gene k, in annotation order
PresentPeaks(k) ==
    LET rows == SelectSeq(peak_annotation, LAMBDA r : PresentPeak(k, r))
    IN  [j \in 1..Len(rows) |-> rows[j].peak]

\* the present peaks of gene k with label t, in annotation order
PresentPeaksOfType(k, t) ==
    LET rows == SelectSeq(peak_annotation, LAMBDA r : PresentPeak(k, r) /\ r.peak_type = t)
    IN  [j \in 1..Len(rows) |-> rows[j].peak]

\* the labels of the present peaks of gene k, in the order first met
RECURSIVE FirstMet(_)
FirstMet(s) ==
    IF s = <<>> THEN <<>>
    ELSE LET init == FirstMet(SubSeq(s, 1, Len(s) - 1))
         IN  IF s[Len(s)] \in Range(init) THEN init ELSE Append(init, s[Len(s)])

LabelsOf(k) ==
    LET rows == SelectSeq(peak_annotation, LAMBDA r : PresentPeak(k, r))
    IN  FirstMet([j \in 1..Len(rows) |-> rows[j].peak_type])

\* the matrix the aggregation reads
ValuesRead == IF use_raw THEN RawX ELSE X

\* the mean over peaks ps of observation o, as a fraction in lowest terms
MeanOver(o, ps) ==
    LET total == SumSeq([j \in 1..Len(ps) |-> ValuesRead[o][ps[j]]])
    IN  CHOOSE f \in [num : 0..total, den : 1..Len(ps)] :
            /\ f.num * Len(ps) = total * f.den
            /\ \A g \in [num : 0..total, den : 1..Len(ps)] :
                  g.num * Len(ps) = total * g.den => f.den <= g.den

\* column c of table t holds the mean over peaks ps for every observation
ColumnIsMean(t, c, ps) ==
    /\ c \in Range(t.columns)
    /\ \A o \in Range(obs_names) : t.data[c][o] = MeanOver(o, ps)

(***************************************************************************)
(* Properties.                                                             *)
(***************************************************************************)

\* C1: a key that is neither an observation id nor an obs column raises a
\* lookup failure when the loop reaches it, at any position: with no peak
\* annotation (no uns['atac'], or no 'peak_annotation' in it) the message
\* directs the user to load peak annotation first; with annotation present
\* but no row for the key the failure carries a different message.
C1_LookupFailure ==
    [][ (AtKey /\ ~IsDirect(keys[i])) =>
          /\ uns_atac # "peak_annotation" =>
                /\ status' = "raised"
                /\ error' = KeyErrorNoAnnotation(keys[i])
          /\ (uns_atac = "peak_annotation" /\ ~HasRows(keys[i])) =>
                /\ status' = "raised"
                /\ error'.type = "KeyError"
                /\ error'.message # KeyErrorNoAnnotation(keys[i]).message ]_vars

\* C1 witness: the second key fails the lookup with annotation present, after
\* a first key that was resolved as a gene.
C1_Witness ==
    /\ status = "raised"
    /\ error.type = "KeyError"
    /\ uns_atac = "peak_annotation"
    /\ i = 2
    /\ tmp_names # <<>>

\* C2: under 'total' or 'all', a gene key with a present peak produces the
\* column '<key> (all peaks)' in the derived table, equal for every
\* observation to the mean over exactly the present linked peaks.
C2_TotalColumn ==
    [][ (AtKey /\ GeneWithPeaks(keys[i])
            /\ (average = AvgStr("total") \/ average = AvgStr("all"))) =>
          /\ status' = "running"
          /\ ColumnIsMean(x', keys[i] \o " (all peaks)", PresentPeaks(keys[i]))
          /\ Range(x'.columns) = Range(x.columns) \cup {keys[i] \o " (all peaks)"} ]_vars

\* C2, where the mean is evaluated: when obs has no column of that name and
\* the matrix that is read exists, the column is produced and is the mean.
C2_TotalColumnWhereComputed ==
    [][ (AtKey /\ GeneWithPeaks(keys[i])
            /\ (average = AvgStr("total") \/ average = AvgStr("all"))
            /\ (keys[i] \o " (all peaks)") \notin obs_columns
            /\ (use_raw => has_raw)) =>
          /\ status' = "running"
          /\ ColumnIsMean(x', keys[i] \o " (all peaks)", PresentPeaks(keys[i]))
          /\ Range(x'.columns) = Range(x.columns) \cup {keys[i] \o " (all peaks)"} ]_vars

\* C3: under 'peak_type', a gene key whose present peaks carry k labels
\* produces k columns '<key> (<label> peaks)', appended to display_names in
\* the order the labels are first met, each the mean over the peaks of its
\* label.
C3_PeakTypeColumns ==
    [][ (AtKey /\ GeneWithPeaks(keys[i]) /\ average = AvgStr("peak_type")) =>
          LET labels == LabelsOf(keys[i])
              names == [j \in 1..Len(labels) |->
                          keys[i] \o " (" \o labels[j] \o " peaks)"]
          IN  /\ status' = "running"
              /\ attr_names'.items = attr_names.items \o names
              /\ Range(x'.columns) = Range(x.columns) \cup Range(names)
              /\ \A j \in 1..Len(labels) :
                    ColumnIsMean(x', names[j], PresentPeaksOfType(keys[i], labels[j])) ]_vars

\* C3, where the means are evaluated: when obs has none of the names as a
\* column and the matrix that is read exists, the columns are produced in
\* the order the labels are first met and are the means by label.
C3_PeakTypeColumnsWhereComputed ==
    [][ (AtKey /\ GeneWithPeaks(keys[i]) /\ average = AvgStr("peak_type")
            /\ (\A t \in Range(LabelsOf(keys[i])) :
                    (keys[i] \o " (" \o t \o " peaks)") \notin obs_columns)
            /\ (use_raw => has_raw)) =>
          LET labels == LabelsOf(keys[i])
              names == [j \in 1..Len(labels) |->
                          keys[i] \o " (" \o labels[j] \o " peaks)"]
          IN  /\ status' = "running"
              /\ attr_names'.items = attr_names.items \o names
              /\ tmp_names' = tmp_names \o names
              /\ Range(x'.columns) = Range(x.columns) \cup Range(names)
              /\ \A j \in 1..Len(labels) :
                    ColumnIsMean(x', names[j], PresentPeaksOfType(keys[i], labels[j])) ]_vars

\* the keys of ks that are not genes without present peaks
RECURSIVE WithoutPeaklessGenes(_)
WithoutPeaklessGenes(ks) ==
    IF ks = <<>> THEN <<>>
    ELSE IF GeneWithoutPeaks(Head(ks)) THEN WithoutPeaklessGenes(Tail(ks))
    ELSE <<Head(ks)>> \o WithoutPeaklessGenes(Tail(ks))

\* the warnings of w other than 'Peaks for ... are not found.'
RECURSIVE OtherWarnings(_)
OtherWarnings(w) ==
    IF w = <<>> THEN <<>>
    ELSE IF \E k \in KeyUniverse : Head(w) = "Peaks for " \o k \o " are not found."
    THEN OtherWarnings(Tail(w))
    ELSE <<Head(w)>> \o OtherWarnings(Tail(w))

\* C4: a gene key none of whose linked peaks is on the feature axis adds no
\* column and no name, emits exactly one warning and does not raise; and
\* the call ends as the call without such keys ends: same derived table,
\* names, outcome and other warnings.
C4_PeaklessGeneSkipped ==
    /\ [][ (AtKey /\ GeneWithoutPeaks(keys[i])) =>
             /\ status' = "running"
             /\ i' = i + 1
             /\ Len(warnings') = Len(warnings) + 1
             /\ <<x', attr_names', tmp_names', mean_calls'>>
                    = <<x, attr_names, tmp_names, mean_calls>> ]_vars
    /\ [](status # "running" =>
             LET r == RunKeys(InitialLocals, WithoutPeaklessGenes(keys))
             IN  /\ <<x, attr_names, tmp_names, status, error>>
                        = <<r.x, r.attr_names, r.tmp_names, r.status, r.error>>
                 /\ OtherWarnings(warnings) = r.warnings)

\* C4 witness: the call returned; its first key was a gene without present
\* peaks, which left one warning, and a later gene key was aggregated.
C4_Witness ==
    /\ status = "returned"
    /\ Len(keys) >= 2
    /\ GeneWithoutPeaks(keys[1])
    /\ Len(warnings) = 1
    /\ x.columns # <<>>
    /\ tmp_names = attr_names.items

\* C5: a key that is an observation id or an obs column is appended
\* unchanged to display_names, adds no column and no new name, and causes
\* no lookup, failure or warning, whatever the mode.
C5_DirectKeyAppended ==
    [][ (AtKey /\ IsDirect(keys[i])) =>
          /\ status' = "running"
          /\ attr_names'.items = Append(attr_names.items, keys[i])
          /\ <<x', tmp_names', warnings'>> = <<x, tmp_names, warnings>> ]_vars

\* C5, while display_names is still a list (line 70 has not run): the key is
\* appended unchanged and nothing else changes.
C5_DirectKeyAppendedToList ==
    [][ (AtKey /\ IsDirect(keys[i]) /\ attr_names.kind = "list") =>
          /\ status' = "running"
          /\ attr_names'.items = Append(attr_names.items, keys[i])
          /\ <<x', tmp_names', warnings'>> = <<x, tmp_names, warnings>> ]_vars

\* C6: when a call returns, a derived name requested twice had its mean
\* computed exactly once, and is listed in display_names once per request.
C6_ComputedOnce ==
    status = "returned" =>
        \A name \in Range(tmp_names) :
            Count(tmp_names, name) >= 2 =>
                /\ Count(mean_calls, name) = 1
                /\ name \in Range(x.columns)
                /\ Count(attr_names.items, name) = Count(tmp_names, name)

\* C7: with an unrecognized mode string ('bogus'), a gene key with present
\* peaks adds no column, adds to display_names exactly its present peaks in
\* annotation order, and causes exactly one warning.
C7_PerPeakFallback ==
    [][ (AtKey /\ GeneWithPeaks(keys[i]) /\ average = AvgStr("bogus")) =>
          /\ x' = x
          /\ attr_names'.items = attr_names.items \o PresentPeaks(keys[i])
          /\ Len(warnings') = Len(warnings) + 1 ]_vars

\* k is an observation id, an obs column or a gene of the annotation
Resolvable(k) == IsDirect(k) \/ GeneKey(k)

\* C8: lookup failure is the only way the call raises: a call raises only
\* with a KeyError at a key that is no observation id, obs column or gene
\* of the annotation.
C8_OnlyLookupRaises ==
    status = "raised" => (error.type = "KeyError" /\ ~Resolvable(keys[i]))

\* C9: when a call returns, every new name is a display name, is a column of
\* the derived table and is not a column obs already had.
C9_NewNamesAreNew ==
    status = "returned" =>
        /\ Range(tmp_names) \subseteq Range(attr_names.items)
        /\ \A name \in Range(tmp_names) :
              name \in Range(x.columns) /\ name \notin obs_columns

\* the mode values python treats as false
Falsy(a) == a \in {AvgNone, AvgFalse, AvgStr(""), AvgInt(0)}

\* the per-peak branch is about to run
AtPerPeak ==
    /\ AtKey
    /\ GeneWithPeaks(keys[i])
    /\ average \notin {AvgStr("total"), AvgStr("all"), AvgStr("peak_type")}

\* C10 as stated: in the per-peak branch the warning is emitted exactly when
\* the mode is a non-falsy unrecognized string; for a falsy mode the peaks
\* are appended to display_names and nothing is warned.
C10_WarnsUnlessFalsy ==
    [][ AtPerPeak =>
          /\ (Len(warnings') = Len(warnings) + 1)
                <=> (average.kind = "str" /\ ~Falsy(average))
          /\ Falsy(average) =>
                /\ warnings' = warnings
                /\ attr_names'.items = attr_names.items \o PresentPeaks(keys[i]) ]_vars

\* C10 as amended: in the per-peak branch no column and no new name is
\* added, and the warning is emitted exactly when the mode is not None, not
\* False and not equal to -1: '' and 0 are warned about, None, False and -1
\* are not.
C10_WarnsUnlessNoneFalseMinusOne ==
    [][ AtPerPeak =>
          /\ <<x', tmp_names'>> = <<x, tmp_names>>
          /\ IF average \in {AvgNone, AvgFalse, AvgInt(-1)}
             THEN warnings' = warnings
             ELSE warnings' = Append(warnings,
                    "Plotting individual peaks since " \o PyFormat(average)
                        \o " was not recognised. Try using 'total' or 'peak_type'.") ]_vars

\* C10 witness: the per-peak branch ran with the empty string as mode and
\* warned about it.
C10_Witness ==
    /\ average = AvgStr("")
    /\ attr_names.kind = "ndarray"
    /\ Len(warnings) = 1
    /\ x.columns = <<>>

====
